---- MODULE Spec2Model ----
(***************************************************************************)
(* Model of the sqlite-prepare query builder (src/query-builder): value    *)
(* coercion (parseValue), the template assembler (build), the raw and      *)
(* fragment markers, the insert constructor and the validator.             *)
(*                                                                         *)
(* Text is a sequence of one-character strings, so that the characters of  *)
(* a query ('?', '(', ')', ...) can be counted and compared.  A JavaScript *)
(* value is a record whose field k is its kind; an object is a record that *)
(* says which of the keys __raw, __fragment, __subquery, query and params  *)
(* it carries.                                                             *)
(***************************************************************************)
EXTENDS Integers, Sequences, FiniteSets, TLC

VARIABLES op, strings, values, result, calls, db, heap, returned

vars == <<op, strings, values, result, calls, db, heap, returned>>

----------------------------------------------------------------------------
(* Bounds of the model *)

\* most interpolated values in one template
MaxValues == 2

\* most elements in an interpolated array
MaxArr == 2

\* most rows in one insert
MaxRows == 2

\* most arrays and objects alive at once, where their identity is modelled
MaxCells == 4

\* deepest nesting of markers built from markers
MaxDepth == 2

----------------------------------------------------------------------------
(* JavaScript values *)

Str(s) == [k |-> "string", s |-> s]
Num(n) == [k |-> "number", n |-> n]
Bool(b) == [k |-> "boolean", b |-> b]
NullV == [k |-> "null"]
UndefV == [k |-> "undefined"]
DateV == [k |-> "date"]
BufV == [k |-> "buffer"]
Arr(elems) == [k |-> "array", elems |-> elems]

\* a function: length is the number of parameters it declares, truthyOn is
\* the set of texts on which, called as a predicate, it returns a truthy value
Function(length, truthyOn) == [k |-> "function", length |-> length, truthyOn |-> truthyOn]

\* an object: tag is the marker key it carries (__raw, __fragment,
\* __subquery or none), hasQuery / hasParams say whether the keys query and
\* params are present (with a defined value), entries are its other keys
Object(tag, hasQuery, query, hasParams, params, entries) ==
    [k |-> "object", tag |-> tag, hasQuery |-> hasQuery, query |-> query,
     hasParams |-> hasParams, params |-> params, entries |-> entries]

PlainObject(entries) == Object("none", FALSE, <<>>, FALSE, <<>>, entries)

\* typeof value === 'object' (null included, as in JavaScript)
TypeofObject(value) == value.k \in {"null", "date", "buffer", "array", "object"}

\* truthiness of a value
Truthy(value) ==
    CASE value.k \in {"null", "undefined"} -> FALSE
      [] value.k = "string" -> value.s # <<>>
      [] value.k = "number" -> value.n # 0
      [] value.k = "boolean" -> value.b
      [] OTHER -> TRUE

\* key in value, for the three marker keys
HasTag(value, tags) == value.k = "object" /\ value.tag \in tags

----------------------------------------------------------------------------
(* JSON.stringify, for the values the model serializes *)

Digits == <<"0", "1", "2", "3", "4", "5", "6", "7", "8", "9">>

RECURSIVE JoinTexts(_, _)
JoinTexts(texts, sep) ==
    IF texts = <<>> THEN <<>>
    ELSE IF Len(texts) = 1 THEN texts[1]
    ELSE texts[1] \o sep \o JoinTexts(Tail(texts), sep)

RECURSIVE JSONstringify(_)
JSONstringify(value) ==
    CASE value.k = "string" -> <<"\"">> \o value.s \o <<"\"">>
      [] value.k = "number" -> <<Digits[value.n + 1]>>
      [] value.k = "boolean" ->
            IF value.b THEN <<"t", "r", "u", "e">> ELSE <<"f", "a", "l", "s", "e">>
      [] value.k \in {"null", "undefined"} -> <<"n", "u", "l", "l">>
      [] value.k = "array" ->
            <<"[">> \o JoinTexts([i \in 1..Len(value.elems) |->
                                    JSONstringify(value.elems[i])], <<",">>) \o <<"]">>
      [] value.k = "object" ->
            <<"{">> \o JoinTexts([i \in 1..Len(value.entries) |->
                                    <<"\"">> \o value.entries[i][1] \o <<"\"", ":">>
                                    \o JSONstringify(value.entries[i][2])], <<",">>) \o <<"}">>
      [] OTHER -> <<"{", "}">>

----------------------------------------------------------------------------
(* parseValue *)

\* parseValue that hands a plain object back unserialized
parseValueNoJSON(value) ==
    IF value.k \in {"null", "undefined"} THEN NullV
    ELSE IF value.k \in {"date", "buffer"} THEN value
    ELSE IF Truthy(value) /\ TypeofObject(value) THEN
        IF HasTag(value, {"raw"}) THEN
            Object("raw", TRUE, value.query, value.hasParams, value.params, <<>>)
        ELSE IF HasTag(value, {"fragment"}) THEN value
        ELSE IF value.k = "object" /\ value.hasQuery /\ value.hasParams THEN
            Object("subquery", TRUE, value.query, TRUE, value.params, <<>>)
        ELSE value
    ELSE value

\* parseValue that tests value === null only, letting undefined through
parseValueKeepUndefined(value) ==
    IF value.k = "null" THEN NullV
    ELSE IF value.k \in {"date", "buffer"} THEN value
    ELSE IF Truthy(value) /\ TypeofObject(value) THEN
        IF HasTag(value, {"raw"}) THEN
            Object("raw", TRUE, value.query, value.hasParams, value.params, <<>>)
        ELSE IF HasTag(value, {"fragment"}) THEN value
        ELSE IF value.k = "object" /\ value.hasQuery /\ value.hasParams THEN
            Object("subquery", TRUE, value.query, TRUE, value.params, <<>>)
        ELSE Str(JSONstringify(value))
    ELSE value

parseValue(value) ==
    IF value.k \in {"null", "undefined"} THEN NullV
    ELSE IF value.k \in {"date", "buffer"} THEN value
    ELSE IF Truthy(value) /\ TypeofObject(value) THEN
        IF HasTag(value, {"raw"}) THEN
            Object("raw", TRUE, value.query, value.hasParams, value.params, <<>>)
        ELSE IF HasTag(value, {"fragment"}) THEN value
        ELSE IF value.k = "object" /\ value.hasQuery /\ value.hasParams THEN
            Object("subquery", TRUE, value.query, TRUE, value.params, <<>>)
        ELSE Str(JSONstringify(value))
    ELSE value

----------------------------------------------------------------------------
(* build *)

\* the two call shapes of build, raw and fragment: a plain string, or the
\* segments of a template literal
PlainString(text) == [k |-> "string", s |-> text]
Template(segs) == [k |-> "template", segs |-> segs]

RECURSIVE Flatten(_)
Flatten(seqs) == IF seqs = <<>> THEN <<>> ELSE Head(seqs) \o Flatten(Tail(seqs))

\* the callback that keeps a marker as one param instead of its params
flattenParsedKeepMarker(v) == <<v>>

\* the callback given to flatMap: a marker yields its params (none if it has
\* none), any other parsed value yields itself
flattenParsed(v) ==
    IF TypeofObject(v) /\ v.k # "null" THEN
        IF HasTag(v, {"subquery", "fragment", "raw"}) THEN
            IF v.hasParams THEN v.params ELSE <<>>
        ELSE <<v>>
    ELSE <<v>>

\* values.map(parseValue).flatMap(...)
mapFlatten(vals) == Flatten([i \in 1..Len(vals) |-> flattenParsed(parseValue(vals[i]))])

\* the accumulators of build
Acc(query, params) == [query |-> query, params |-> params]

\* the IN-list branch that pushes the elements as they are, one slot each
buildArrayNoFlatten(value, acc) ==
    IF Len(value.elems) = 0 THEN
        Acc(acc.query \o <<"(", "N", "U", "L", "L", ")">>, acc.params)
    ELSE
        Acc(acc.query \o <<"(">>
              \o JoinTexts([i \in 1..Len(value.elems) |-> <<"?">>], <<",", " ">>)
              \o <<")">>,
            acc.params \o [i \in 1..Len(value.elems) |-> parseValue(value.elems[i])])

\* the IN-list branch without the special case of the empty array
buildArrayEmptyParens(value, acc) ==
    Acc(acc.query \o <<"(">>
          \o JoinTexts([i \in 1..Len(value.elems) |-> <<"?">>], <<",", " ">>)
          \o <<")">>,
        acc.params \o mapFlatten(value.elems))

\* Array.isArray(value): the IN-list branch
buildArray(value, acc) ==
    IF Len(value.elems) = 0 THEN
        Acc(acc.query \o <<"(", "N", "U", "L", "L", ")">>, acc.params)
    ELSE
        Acc(acc.query \o <<"(">>
              \o JoinTexts([i \in 1..Len(value.elems) |-> <<"?">>], <<",", " ">>)
              \o <<")">>,
            acc.params \o mapFlatten(value.elems))

\* the object branch that wraps a fragment in parentheses, as a subquery
buildObjectParenFragment(value, acc) ==
    IF HasTag(value, {"raw", "fragment"}) THEN
        Acc(acc.query \o (IF HasTag(value, {"fragment"})
                          THEN <<"(">> \o value.query \o <<")">> ELSE value.query),
            IF value.hasParams THEN acc.params \o value.params ELSE acc.params)
    ELSE IF value.k = "object" /\ value.hasQuery /\ value.hasParams THEN
        Acc(acc.query \o <<"(">> \o value.query \o <<")">>, acc.params \o value.params)
    ELSE
        LET parsed == parseValue(value) IN
        IF TypeofObject(parsed) /\ parsed.k # "null" THEN
            IF HasTag(parsed, {"raw", "fragment", "subquery"}) THEN
                Acc(acc.query \o parsed.query,
                    IF parsed.hasParams THEN acc.params \o parsed.params ELSE acc.params)
            ELSE Acc(acc.query \o <<"?">>, Append(acc.params, parsed))
        ELSE Acc(acc.query \o <<"?">>, Append(acc.params, parsed))

\* the object branch that splices a raw marker's text and forgets its params
buildObjectRawNoParams(value, acc) ==
    IF HasTag(value, {"raw", "fragment"}) THEN
        Acc(acc.query \o value.query,
            IF value.hasParams /\ ~HasTag(value, {"raw"})
            THEN acc.params \o value.params ELSE acc.params)
    ELSE IF value.k = "object" /\ value.hasQuery /\ value.hasParams THEN
        Acc(acc.query \o <<"(">> \o value.query \o <<")">>, acc.params \o value.params)
    ELSE
        LET parsed == parseValue(value) IN
        IF TypeofObject(parsed) /\ parsed.k # "null" THEN
            IF HasTag(parsed, {"raw", "fragment", "subquery"}) THEN
                Acc(acc.query \o parsed.query,
                    IF parsed.hasParams THEN acc.params \o parsed.params ELSE acc.params)
            ELSE Acc(acc.query \o <<"?">>, Append(acc.params, parsed))
        ELSE Acc(acc.query \o <<"?">>, Append(acc.params, parsed))

\* the object branch that splices a subquery without parentheses
buildObjectBareSubquery(value, acc) ==
    IF HasTag(value, {"raw", "fragment"}) THEN
        Acc(acc.query \o value.query,
            IF value.hasParams THEN acc.params \o value.params ELSE acc.params)
    ELSE IF value.k = "object" /\ value.hasQuery /\ value.hasParams THEN
        Acc(acc.query \o value.query, acc.params \o value.params)
    ELSE
        LET parsed == parseValue(value) IN
        IF TypeofObject(parsed) /\ parsed.k # "null" THEN
            IF HasTag(parsed, {"raw", "fragment", "subquery"}) THEN
                Acc(acc.query \o parsed.query,
                    IF parsed.hasParams THEN acc.params \o parsed.params ELSE acc.params)
            ELSE Acc(acc.query \o <<"?">>, Append(acc.params, parsed))
        ELSE Acc(acc.query \o <<"?">>, Append(acc.params, parsed))

\* value && typeof value === 'object': markers, subqueries, other objects
buildObject(value, acc) ==
    IF HasTag(value, {"raw", "fragment"}) THEN
        Acc(acc.query \o value.query,
            IF value.hasParams THEN acc.params \o value.params ELSE acc.params)
    ELSE IF value.k = "object" /\ value.hasQuery /\ value.hasParams THEN
        Acc(acc.query \o <<"(">> \o value.query \o <<")">>, acc.params \o value.params)
    ELSE
        LET parsed == parseValue(value) IN
        IF TypeofObject(parsed) /\ parsed.k # "null" THEN
            IF HasTag(parsed, {"raw", "fragment", "subquery"}) THEN
                Acc(acc.query \o parsed.query,
                    IF parsed.hasParams THEN acc.params \o parsed.params ELSE acc.params)
            ELSE Acc(acc.query \o <<"?">>, Append(acc.params, parsed))
        ELSE Acc(acc.query \o <<"?">>, Append(acc.params, parsed))

\* a regular value whose string content is written into the text
buildScalarInline(value, acc) ==
    IF value.k = "string" THEN Acc(acc.query \o <<"'">> \o value.s \o <<"'">>, acc.params)
    ELSE Acc(acc.query \o <<"?">>, Append(acc.params, parseValue(value)))

\* any other value
buildScalar(value, acc) == Acc(acc.query \o <<"?">>, Append(acc.params, parseValue(value)))

\* the dispatch on one interpolated value
buildValue(value, acc) ==
    IF value.k = "array" THEN buildArray(value, acc)
    ELSE IF Truthy(value) /\ TypeofObject(value) THEN buildObject(value, acc)
    ELSE buildScalar(value, acc)

\* the loop over the segments, from segment i on
RECURSIVE buildLoop(_, _, _, _)
buildLoop(segs, vals, i, acc) ==
    IF i > Len(segs) THEN acc
    ELSE LET withSeg == Acc(acc.query \o segs[i], acc.params)
         IN  buildLoop(segs, vals, i + 1,
                       IF i <= Len(vals) THEN buildValue(vals[i], withSeg) ELSE withSeg)

\* what the loop `for (i = 0; i < strings.length; i++)` runs over: the
\* segments of a template; nothing for an object, which has no length
Segments(strs) == IF strs.k = "template" THEN strs.segs ELSE <<>>

build(strs, vals) ==
    IF strs.k = "string" THEN
        Object("none", TRUE, strs.s, TRUE, mapFlatten(vals), <<>>)
    ELSE
        LET acc == buildLoop(Segments(strs), vals, 1, Acc(<<>>, <<>>))
        IN  Object("none", TRUE, acc.query, TRUE, acc.params, <<>>)

----------------------------------------------------------------------------
(* raw and fragment *)

\* String(value), as string concatenation renders a value
RECURSIVE ToText(_)
ToText(value) ==
    CASE value.k = "string" -> value.s
      [] value.k = "number" -> <<Digits[value.n + 1]>>
      [] value.k = "boolean" ->
            IF value.b THEN <<"t", "r", "u", "e">> ELSE <<"f", "a", "l", "s", "e">>
      [] value.k = "null" -> <<"n", "u", "l", "l">>
      [] value.k = "undefined" -> <<"u", "n", "d", "e", "f", "i", "n", "e", "d">>
      [] value.k = "array" ->
            JoinTexts([i \in 1..Len(value.elems) |->
                          IF value.elems[i].k \in {"null", "undefined"} THEN <<>>
                          ELSE ToText(value.elems[i])], <<",">>)
      [] OTHER -> <<"[", "o", "b", "j", "e", "c", "t", " ", "O", "b", "j", "e", "c", "t", "]">>

\* the loop that renders an undefined value like any other
RECURSIVE rawLoopUndefinedAsText(_, _, _, _)
rawLoopUndefinedAsText(segs, vals, i, text) ==
    IF i > Len(segs) THEN text
    ELSE rawLoopUndefinedAsText(segs, vals, i + 1,
             text \o segs[i] \o (IF i <= Len(vals) THEN ToText(vals[i]) ELSE <<>>))

RECURSIVE rawLoop(_, _, _, _)
rawLoop(segs, vals, i, text) ==
    IF i > Len(segs) THEN text
    ELSE rawLoop(segs, vals, i + 1,
                 text \o segs[i]
                      \o (IF i <= Len(vals) /\ vals[i].k # "undefined"
                          THEN ToText(vals[i]) ELSE <<>>))

\* raw that gives every marker made from a string a params member
rawAlwaysParams(stringsOrValue, vals) ==
    IF stringsOrValue.k # "string" THEN
        Object("raw", TRUE, rawLoop(stringsOrValue.segs, vals, 1, <<>>), FALSE, <<>>, <<>>)
    ELSE
        Object("raw", TRUE, stringsOrValue.s, TRUE,
               IF Len(vals) > 0 /\ Truthy(vals[1]) THEN vals[1].elems ELSE <<>>, <<>>)

raw(stringsOrValue, vals) ==
    IF stringsOrValue.k # "string" THEN
        Object("raw", TRUE, rawLoop(stringsOrValue.segs, vals, 1, <<>>), FALSE, <<>>, <<>>)
    ELSE
        LET params == IF Len(vals) > 0 /\ Truthy(vals[1]) THEN vals[1].elems ELSE <<>>
        IN  IF Len(params) > 0
            THEN Object("raw", TRUE, stringsOrValue.s, TRUE, params, <<>>)
            ELSE Object("raw", TRUE, stringsOrValue.s, FALSE, <<>>, <<>>)

\* fragment that keeps the text of the built query and not its params
fragmentWithoutParams(strs, vals) ==
    Object("fragment", TRUE, build(strs, vals).query, TRUE, <<>>, <<>>)

fragment(strs, vals) ==
    LET built == build(strs, vals)
    IN  Object("fragment", TRUE, built.query, TRUE, built.params, <<>>)

----------------------------------------------------------------------------
(* insert *)

\* throw new Error(message): the call ends with the error instead of a value
Error(message) == [k |-> "error", message |-> message]

\* the members a row inherits from Object.prototype that the columns of the
\* model can name (the operator `in` sees them, Object.keys does not), and
\* the value of that member: the function Object
ObjectPrototype == {<<"c", "o", "n", "s", "t", "r", "u", "c", "t", "o", "r">>}
ObjectConstructor == Function(1, {})

\* Object.keys(row): the row's own keys, in insertion order
ObjectKeys(row) == [i \in 1..Len(row.entries) |-> row.entries[i][1]]

HasOwn(row, col) == \E i \in 1..Len(row.entries) : row.entries[i][1] = col

\* col in row
In(col, row) == HasOwn(row, col) \/ col \in ObjectPrototype

\* row[col]
Get(row, col) ==
    IF HasOwn(row, col)
    THEN row.entries[CHOOSE i \in 1..Len(row.entries) : row.entries[i][1] = col][2]
    ELSE IF col \in ObjectPrototype THEN ObjectConstructor
    ELSE UndefV

\* a wrapping that takes anything but an array for no rows at all
valuesArrayOfArrayOnly(vals) == IF vals.k = "array" THEN vals.elems ELSE <<>>

\* Array.isArray(values) ? values : [values]
valuesArray(vals) == IF vals.k = "array" THEN vals.elems ELSE <<vals>>

\* columns.add(key) that appends the key even when the set has it
columnsAddAgain(columns, key) == Append(columns, key)

\* columns.add(key): a Set keeps the order of first insertion
columnsAdd(columns, key) ==
    IF \E i \in 1..Len(columns) : columns[i] = key THEN columns
    ELSE Append(columns, key)

RECURSIVE columnsAddAll(_, _)
columnsAddAll(columns, keys) ==
    IF keys = <<>> THEN columns
    ELSE columnsAddAll(columnsAdd(columns, Head(keys)), Tail(keys))

\* the loop over the rows that collects the keys, from the columns so far
RECURSIVE collectColumns(_, _)
collectColumns(rows, columns) ==
    IF rows = <<>> THEN columns
    ELSE collectColumns(Tail(rows), columnsAddAll(columns, ObjectKeys(Head(rows))))

columnsList(rows) == collectColumns(rows, <<>>)

\* one row with every column: the parsed value of the row's member, or of
\* null when the row has no such member
parsedRow(row, columns) ==
    [c \in 1..Len(columns) |->
        parseValue(IF In(columns[c], row) THEN Get(row, columns[c]) ELSE NullV)]

\* the cell that splices a subquery without the parentheses
rowValueBareSubquery(val) ==
    IF TypeofObject(val) /\ val.k # "null" /\ HasTag(val, {"raw", "fragment", "subquery"})
    THEN Acc(val.query, IF val.hasParams THEN val.params ELSE <<>>)
    ELSE Acc(<<"?">>, <<val>>)

\* the cell that splices a raw marker without pushing its params
rowValueRawNoParams(val) ==
    IF TypeofObject(val) /\ val.k # "null" /\ HasTag(val, {"raw"}) THEN
        Acc(val.query, <<>>)
    ELSE IF TypeofObject(val) /\ val.k # "null" /\ HasTag(val, {"fragment"}) THEN
        Acc(val.query, IF val.hasParams THEN val.params ELSE <<>>)
    ELSE IF TypeofObject(val) /\ val.k # "null" /\ HasTag(val, {"subquery"}) THEN
        Acc(<<"(">> \o val.query \o <<")">>, val.params)
    ELSE
        Acc(<<"?">>, <<val>>)

\* one cell of a row: its text, and what it pushes on params
rowValue(val) ==
    IF TypeofObject(val) /\ val.k # "null" /\ HasTag(val, {"raw", "fragment"}) THEN
        Acc(val.query, IF val.hasParams THEN val.params ELSE <<>>)
    ELSE IF TypeofObject(val) /\ val.k # "null" /\ HasTag(val, {"subquery"}) THEN
        Acc(<<"(">> \o val.query \o <<")">>, val.params)
    ELSE
        Acc(<<"?">>, <<val>>)

\* `(${rowValues.join(', ')})` for one parsed row
rowPlaceholder(parsed) ==
    <<"(">> \o JoinTexts([c \in 1..Len(parsed) |-> rowValue(parsed[c]).query], <<",", " ">>)
           \o <<")">>

\* what one parsed row pushes on params, cell after cell
rowParams(parsed) == Flatten([c \in 1..Len(parsed) |-> rowValue(parsed[c]).params])

\* the statement for the rows, once they are known not to be empty
insertRows(table, rows) ==
    LET columns == columnsList(rows)
        parsedValuesArray == [r \in 1..Len(rows) |-> parsedRow(rows[r], columns)]
        rowPlaceholders ==
            JoinTexts([r \in 1..Len(rows) |-> rowPlaceholder(parsedValuesArray[r])],
                      <<",", " ">>)
        params == Flatten([r \in 1..Len(rows) |-> rowParams(parsedValuesArray[r])])
        query ==
            <<"I", "N", "S", "E", "R", "T", " ", "I", "N", "T", "O", " ">> \o table
            \o <<" ", "(">> \o JoinTexts(columns, <<",", " ">>) \o <<")">>
            \o <<" ", "V", "A", "L", "U", "E", "S", " ">> \o rowPlaceholders
    IN  Object("fragment", TRUE, query, TRUE, params, <<>>)

ValuesArrayCannotBeEmpty ==
    <<"V", "a", "l", "u", "e", "s", " ", "a", "r", "r", "a", "y",
      " ", "c", "a", "n", "n", "o", "t", " ", "b", "e", " ", "e",
      "m", "p", "t", "y">>

\* insert without the check for no rows
insertUnchecked(table, vals) == insertRows(table, valuesArray(vals))

insert(table, vals) ==
    IF Len(valuesArray(vals)) = 0 THEN Error(ValuesArrayCannotBeEmpty)
    ELSE insertRows(table, valuesArray(vals))

----------------------------------------------------------------------------
(* validate *)

\* a rule that declares more than two parameters taken for a rule of two
isRawSQLValidatorAtLeastTwo(validator) == validator.k = "function" /\ validator.length >= 2

isStringValidator(validator) == validator.k = "function" /\ validator.length = 1
isRawSQLValidator(validator) == validator.k = "function" /\ validator.length = 2

\* validator(...args): the verdict of the caller's predicate, which the
\* model lets depend on the text of its first argument
Call(validator, args) ==
    (IF args[1].k = "string" THEN args[1].s ELSE args[1].query) \in validator.truthyOn

\* a membership test that finds every text
includesAnything(validator, text) == TRUE

\* validator.includes(text)
includes(validator, text) ==
    \E i \in 1..Len(validator.elems) : validator.elems[i] = Str(text)

QueryNotAllowed(text) ==
    <<"Q", "u", "e", "r", "y", " ", "\"">> \o text
    \o
    <<"\"", " ", "i", "s", " ", "n", "o", "t", " ", "i", "n", " ", "t",
      "h", "e", " ", "a", "l", "l", "o", "w", "e", "d", " ", "l", "i",
      "s", "t">>

QueryNotValid(text) ==
    <<"Q", "u", "e", "r", "y", " ", "\"">> \o text
    \o
    <<"\"", " ", "i", "s", " ", "n", "o", "t", " ", "v", "a", "l", "i",
      "d">>

InvalidValidatorType ==
    <<"I", "n", "v", "a", "l", "i", "d", " ", "v", "a", "l", "i", "d",
      "a", "t", "o", "r", " ", "t", "y", "p", "e">>

\* a normalisation that builds the marker again from the text alone
rawSqlFromText(input) ==
    raw(PlainString(IF input.k = "string" THEN input.s ELSE input.query), <<>>)

\* typeof input === "string" ? raw(input) : input
rawSqlOf(input) == IF input.k = "string" THEN raw(input, <<>>) ELSE input

\* the arguments of a two-parameter predicate without the flag
rawSQLValidatorArgsNoFlag(rawSql) == <<rawSql>>

\* the arguments validate calls a two-parameter predicate with
rawSQLValidatorArgs(rawSql) == <<rawSql, Bool(TRUE)>>

\* the arguments validate calls a one-parameter predicate with
stringValidatorArgs(input, rawSql) ==
    IF input.k = "string" THEN <<input>> ELSE <<Str(rawSql.query)>>

\* how a call of validate ends (with the marker it returns or the error it
\* throws) and the calls of the caller's predicate it made, in order
Outcome(res, invocations) == [result |-> res, calls |-> invocations]

validate(input, validator) ==
    LET rawSql == rawSqlOf(input) IN
    IF validator.k = "array" THEN
        IF ~includes(validator, rawSql.query)
        THEN Outcome(Error(QueryNotAllowed(rawSql.query)), <<>>)
        ELSE Outcome(rawSql, <<>>)
    ELSE IF isStringValidator(validator) THEN
        LET args == stringValidatorArgs(input, rawSql) IN
        IF ~Call(validator, args)
        THEN Outcome(Error(QueryNotValid(args[1].s)), <<args>>)
        ELSE Outcome(rawSql, <<args>>)
    ELSE IF isRawSQLValidator(validator) THEN
        LET args == rawSQLValidatorArgs(rawSql) IN
        IF ~Call(validator, args)
        THEN Outcome(Error(QueryNotValid(rawSql.query)), <<args>>)
        ELSE Outcome(rawSql, <<args>>)
    ELSE Outcome(Error(InvalidValidatorType), <<>>)

----------------------------------------------------------------------------
(* prepare, and the database handle it drives *)

\* a database handle, the statement db.prepare(query) returns and the bound
\* statement statement.bind(...params) returns
Database(id) == [k |-> "database", id |-> id]
PreparedStatement(handle, query) == [k |-> "statement", db |-> handle, query |-> query]
BoundStatement(statement, params) ==
    [k |-> "bound", statement |-> statement, params |-> params]

\* one call of a method of the handle or of a statement, as the handle sees it
MethodCall(receiver, method, args) == [on |-> receiver, method |-> method, args |-> args]

\* db.prepare(q.query).bind(...(q.params)) for a built q
prepareAndBind(handle, q) ==
    LET statement == PreparedStatement(handle, q.query)
    IN  Outcome(BoundStatement(statement, q.params),
                << MethodCall(handle, "prepare", <<Str(q.query)>>),
                   MethodCall(statement, "bind", q.params) >>)

\* a prepare that hands the statement back without binding the params
prepareUnbound(handle, strs, vals) ==
    LET q == build(strs, vals)
    IN  Outcome(PreparedStatement(handle, q.query),
                << MethodCall(handle, "prepare", <<Str(q.query)>>) >>)

\* prepare of query-builder/prepare.ts
prepare(handle, strs, vals) == prepareAndBind(handle, build(strs, vals))

----------------------------------------------------------------------------
(* The module query_builder.ts, which d1.ts imports prepare from *)

\* value.value: no object of the model has a member named value
valueMember(value) == UndefV

\* one interpolated value, in build of query_builder.ts
query_builder_buildValue(value, acc) ==
    IF value.k = "array" THEN
        IF Len(value.elems) = 0 THEN
            Acc(acc.query \o <<"(", "N", "U", "L", "L", ")">>, acc.params)
        ELSE
            Acc(acc.query \o <<"(">>
                  \o JoinTexts([i \in 1..Len(value.elems) |-> <<"?">>], <<",", " ">>)
                  \o <<")">>,
                acc.params \o value.elems)
    ELSE IF Truthy(value) /\ TypeofObject(value) THEN
        IF HasTag(value, {"raw"}) THEN
            Acc(acc.query \o ToText(valueMember(value)), acc.params)
        ELSE IF value.k = "object" /\ value.hasQuery /\ value.hasParams THEN
            Acc(acc.query \o <<"(">> \o value.query \o <<")">>, acc.params \o value.params)
        ELSE IF value.k \in {"date", "buffer"} THEN
            Acc(acc.query \o <<"?">>, Append(acc.params, value))
        ELSE
            Acc(acc.query \o <<"?">>, Append(acc.params, Str(JSONstringify(value))))
    ELSE
        Acc(acc.query \o <<"?">>, Append(acc.params, value))

RECURSIVE query_builder_buildLoop(_, _, _, _)
query_builder_buildLoop(segs, vals, i, acc) ==
    IF i > Len(segs) THEN acc
    ELSE LET withSeg == Acc(acc.query \o segs[i], acc.params)
         IN  query_builder_buildLoop(segs, vals, i + 1,
                 IF i <= Len(vals) THEN query_builder_buildValue(vals[i], withSeg)
                 ELSE withSeg)

\* build of query_builder.ts
query_builder_build(strs, vals) ==
    IF strs.k = "string" THEN
        Object("none", TRUE, strs.s, TRUE, vals, <<>>)
    ELSE
        LET acc == query_builder_buildLoop(Segments(strs), vals, 1, Acc(<<>>, <<>>))
        IN  Object("none", TRUE, acc.query, TRUE, acc.params, <<>>)

\* prepare of query_builder.ts
query_builder_prepare(handle, strs, vals) ==
    prepareAndBind(handle, query_builder_build(strs, vals))

----------------------------------------------------------------------------
(* wrapD1 *)

DatabaseConnectionIsNotEstablished ==
    <<"D", "a", "t", "a", "b", "a", "s", "e", " ", "c", "o", "n", "n",
      "e", "c", "t", "i", "o", "n", " ", "i", "s", " ", "n", "o", "t",
      " ", "e", "s", "t", "a", "b", "l", "i", "s", "h", "e", "d", ".">>

\* prepare.bind(null, db): the function that calls prepare of
\* query_builder.ts with the handle as its first argument
BoundPrepare(handle) == [k |-> "function", bound |-> "prepare", boundArgs |-> <<handle>>]

\* a wrapper that refuses only the handle that is null or undefined
wrapD1NullOnly(handle) ==
    IF handle.k \in {"null", "undefined"} THEN Error(DatabaseConnectionIsNotEstablished)
    ELSE BoundPrepare(handle)

wrapD1(handle) ==
    IF ~Truthy(handle) THEN Error(DatabaseConnectionIsNotEstablished)
    ELSE BoundPrepare(handle)

\* wrapped(strings, ...values), for the function wrapD1 returned
callBound(wrapped, strs, vals) == query_builder_prepare(wrapped.boundArgs[1], strs, vals)

----------------------------------------------------------------------------
(* The values the caller interpolates *)

\* the literal segments of the caller's template: segment i
SegAt(i) ==
    CASE i % 3 = 1 -> <<"S", " ">>
      [] i % 3 = 2 -> <<" ", "W", "=">>
      [] OTHER -> <<>>

\* a tagged template with n interpolated values has n + 1 segments
TemplateOf(n) == Template([i \in 1..(n + 1) |-> SegAt(i)])

SomeObject == PlainObject(<< <<<<"i", "d">>, Num(1)>> >>)

Scalars ==
    {Str(<<"a">>), Str(<<>>), Num(1), Bool(TRUE), NullV, UndefV, DateV, BufV}

\* markers the caller made from scalars alone
RawPlain == raw(PlainString(<<"N", "O", "W">>), <<>>)
RawBound == raw(PlainString(<<"x", "<", "?">>), <<Arr(<<Num(2)>>)>>)
FragmentTwo ==
    fragment(Template(<< <<"c", "=">>, <<"&", "d", "=">>, <<>> >>), <<Str(<<"b">>), Num(2)>>)
QueryOne == build(Template(<< <<"q", "=">>, <<>> >>), <<Bool(FALSE)>>)

BaseMarkers == {RawPlain, RawBound, FragmentTwo, QueryOne}

\* a raw marker with a '?' and nothing to bind to it, and one whose list of
\* params holds undefined
RawUnbound == raw(PlainString(<<"x", "<", "?">>), <<>>)
RawUndefined == raw(PlainString(<<"x", "<", "?">>), <<Arr(<<UndefV>>)>>)

\* markers made from the markers of M: a fragment around each fragment and
\* a query around each query
Layer(M) ==
    {fragment(Template(<< <<>>, <<"&", "e", "=">>, <<>> >>), <<m, Str(<<"c">>)>>) :
        m \in {x \in M : x.tag = "fragment"}}
    \cup {build(Template(<< <<"i", "n", " ">>, <<>> >>), <<m>>) :
            m \in {x \in M : x.tag = "none"}}

RECURSIVE MarkersUpTo(_)
MarkersUpTo(d) ==
    IF d <= 1 THEN BaseMarkers
    ELSE MarkersUpTo(d - 1) \cup Layer(MarkersUpTo(d - 1))

Markers == MarkersUpTo(MaxDepth)

ArrayElems == {UndefV, RawPlain, FragmentTwo, QueryOne}

Arrays == UNION {{Arr(es) : es \in [1..n -> ArrayElems]} : n \in 0..MaxArr}

\* the values that are not arrays
Simple == Scalars \cup {SomeObject} \cup Markers

Values == Simple \cup Arrays

\* the lists of n values the caller interpolates in one template: any values,
\* with an array at position p, or (p = 0) without an array
ValueLists(n, p) ==
    IF p = 0 THEN [1..n -> Simple]
    ELSE {[i \in 1..n |-> IF i = p THEN a ELSE r[i]] :
             a \in Arrays, r \in [(1..n) \ {p} -> Simple]}

\* the table and the column names of the inserts; the third name is also
\* the name of a member every object inherits
Table == <<"t">>
ColumnNames ==
    << <<"a">>, <<"b">>, <<"c", "o", "n", "s", "t", "r", "u", "c", "t", "o", "r">> >>

\* the keys of a row, in the order the caller wrote them
KeyLists ==
    { <<>>, <<1>>, <<2>>, <<1, 2>>, <<2, 1>>, <<3>>, <<1, 3>> }

\* the values of a row: one value for each column name
CellValues ==
    { <<Str(<<"a">>), Num(1), Str(<<>>)>>,
      <<NullV, UndefV, Bool(TRUE)>>,
      <<RawBound, FragmentTwo, RawUnbound>>,
      <<QueryOne, Arr(<<Num(1), UndefV>>), DateV>>,
      <<SomeObject, BufV, QueryOne>> }

\* the row objects: { [key]: value, ... }
Rows ==
    {PlainObject([i \in 1..Len(ks) |-> <<ColumnNames[ks[i]], cv[ks[i]]>>]) :
        ks \in KeyLists, cv \in CellValues}

\* what the caller hands to insert for the rows rs: the array of them, or,
\* when there is one, that row itself
RowsOrRow(rs) == IF Len(rs) = 1 THEN {Arr(rs), rs[1]} ELSE {Arr(rs)}

\* the texts the caller has validated
QueryTexts == {<<"N", "O", "W">>, <<"x", "<", "?">>, <<"D">>, <<>>}

\* the inputs of validate: a string, or a raw marker without or with params
Inputs ==
    {Str(t) : t \in QueryTexts}
    \cup {raw(PlainString(t), <<>>) : t \in QueryTexts}
    \cup {raw(PlainString(t), <<Arr(<<Num(2)>>)>>) : t \in QueryTexts}

\* the allow lists, and what the caller's predicates accept
AllowLists ==
    {Arr(<<>>), Arr(<<Str(<<"N", "O", "W">>), Str(<<"x", "<", "?">>)>>), Arr(<<Str(<<>>)>>)}
Accepted == {{}, {<<"N", "O", "W">>, <<"x", "<", "?">>}, QueryTexts}

\* the rules handed to validate: an allow list, a function declaring zero
\* to three parameters, or something that is neither
Validators ==
    AllowLists
    \cup {Function(n, acc) : n \in 0..3, acc \in Accepted}
    \cup {PlainObject(<<>>), NullV, UndefV, Str(<<"N", "O", "W">>), Num(1)}

\* the handles: two databases, and what a caller without a connection holds
Databases == {Database(1), Database(2)}
Handles == Databases \cup {NullV, UndefV, Num(0), Str(<<>>), Bool(FALSE)}

\* the values interpolated in the statements that go to a database
StatementValues ==
    {Str(<<"a">>), UndefV, DateV, SomeObject, RawPlain, RawBound, FragmentTwo, QueryOne}

\* the first argument of a call with n values: the template that takes
\* them or a plain string and, without values, a query built before
BuiltQueries == {QueryOne, build(Template(<< <<"i", "n", " ">>, <<>> >>), <<QueryOne>>)}
StatementShapes(n) ==
    {TemplateOf(n), PlainString(<<"a", "=", "?", "&", "b", "=", "?">>)}
    \cup (IF n = 0 THEN BuiltQueries ELSE {})

\* the values interpolated in a raw template, and the arguments that
\* follow the string of raw(string, params)
RawValues ==
    {Str(<<"a">>), Str(<<"?">>), Num(1), Bool(TRUE), NullV, UndefV,
     Arr(<<Num(1), UndefV, Str(<<"a">>)>>), SomeObject}
RawArguments == {<<>>, <<UndefV>>, <<Arr(<<>>)>>, <<Arr(<<Num(2)>>)>>, <<Arr(<<UndefV>>)>>}

----------------------------------------------------------------------------
(* The calls *)

Init ==
    /\ op = "none"
    /\ strings = TemplateOf(0)
    /\ values = <<>>
    /\ result = NullV
    /\ calls = <<>>
    /\ db = NullV
    /\ heap = <<>>
    /\ returned = {}

\* build`...${v1}...${vn}...`
Build ==
    /\ op = "none"
    /\ \E n \in 0..MaxValues : \E p \in 0..n : \E vs \in ValueLists(n, p) :
        /\ op' = "build"
        /\ strings' = TemplateOf(n)
        /\ values' = vs
        /\ result' = build(TemplateOf(n), vs)
        /\ calls' = <<>>
        /\ db' = NullV
        /\ UNCHANGED <<heap, returned>>

\* the arrays of scalars a caller hands to the plain-string shape
ScalarArrays == {Arr(<<>>), Arr(<<Num(1), UndefV>>), Arr(<<Str(<<"a">>)>>)}

\* the texts of the plain-string shape
PlainTexts == {<<"a", "=", "?", "&", "b", "=", "?">>, <<>>}

\* build('a=?&b=?', v1, ..., vn)
BuildPlain ==
    /\ op = "none"
    /\ \E text \in PlainTexts : \E n \in 0..MaxValues :
       \E vs \in [1..n -> Simple \cup ScalarArrays \cup {RawUndefined}] :
        /\ op' = "build"
        /\ strings' = PlainString(text)
        /\ values' = vs
        /\ result' = build(PlainString(text), vs)
        /\ calls' = <<>>
        /\ db' = NullV
        /\ UNCHANGED <<heap, returned>>

\* fragment`...${v1}...${vn}...`
Fragment ==
    /\ op = "none"
    /\ \E n \in 0..MaxValues : \E p \in 0..n : \E vs \in ValueLists(n, p) :
        /\ op' = "fragment"
        /\ strings' = TemplateOf(n)
        /\ values' = vs
        /\ result' = fragment(TemplateOf(n), vs)
        /\ calls' = <<>>
        /\ db' = NullV
        /\ UNCHANGED <<heap, returned>>

\* insert(into('t'), row) and insert(into('t'), [row1, ..., rown])
Insert ==
    /\ op = "none"
    /\ \E n \in 0..MaxRows : \E rs \in [1..n -> Rows] : \E vals \in RowsOrRow(rs) :
        /\ op' = "insert"
        /\ strings' = PlainString(Table)
        /\ values' = <<vals>>
        /\ result' = insert(Table, vals)
        /\ calls' = <<>>
        /\ db' = NullV
        /\ UNCHANGED <<heap, returned>>

\* validate(input, validator)
Validate ==
    /\ op = "none"
    /\ \E input \in Inputs : \E validator \in Validators :
        /\ op' = "validate"
        /\ strings' = input
        /\ values' = <<validator>>
        /\ result' = validate(input, validator).result
        /\ calls' = validate(input, validator).calls
        /\ db' = NullV
        /\ UNCHANGED <<heap, returned>>

\* prepare(db, strings, ...values) and prepare(db, query)
Prepare ==
    /\ op = "none"
    /\ \E handle \in Databases : \E n \in 0..MaxValues :
       \E vs \in [1..n -> StatementValues] : \E strs \in StatementShapes(n) :
        /\ op' = "prepare"
        /\ strings' = strs
        /\ values' = vs
        /\ result' = prepare(handle, strs, vs).result
        /\ calls' = prepare(handle, strs, vs).calls
        /\ db' = handle
        /\ UNCHANGED <<heap, returned>>

\* wrapD1(db)
WrapD1 ==
    /\ op = "none"
    /\ \E handle \in Handles :
        /\ op' = "wrapD1"
        /\ strings' = TemplateOf(0)
        /\ values' = <<>>
        /\ result' = wrapD1(handle)
        /\ calls' = <<>>
        /\ db' = handle
        /\ UNCHANGED <<heap, returned>>

\* wrapD1(db)`...${v1}...${vn}...` and wrapD1(db)('a=?&b=?', v1, ..., vn)
CallWrapped ==
    /\ op = "none"
    /\ \E handle \in Databases : \E n \in 0..MaxValues :
       \E vs \in [1..n -> StatementValues] :
       \E strs \in {TemplateOf(n), PlainString(<<"a", "=", "?", "&", "b", "=", "?">>)} :
        /\ op' = "wrapped"
        /\ strings' = strs
        /\ values' = vs
        /\ result' = callBound(wrapD1(handle), strs, vs).result
        /\ calls' = callBound(wrapD1(handle), strs, vs).calls
        /\ db' = handle
        /\ UNCHANGED <<heap, returned>>

\* fragment('a=?&b=?', v1, ..., vn)
FragmentPlain ==
    /\ op = "none"
    /\ \E text \in PlainTexts : \E n \in 0..MaxValues :
       \E vs \in [1..n -> StatementValues] :
        /\ op' = "fragment"
        /\ strings' = PlainString(text)
        /\ values' = vs
        /\ result' = fragment(PlainString(text), vs)
        /\ calls' = <<>>
        /\ db' = NullV
        /\ UNCHANGED <<heap, returned>>

\* raw`...${v1}...${vn}...`
Raw ==
    /\ op = "none"
    /\ \E n \in 0..MaxValues : \E vs \in [1..n -> RawValues] :
        /\ op' = "raw"
        /\ strings' = TemplateOf(n)
        /\ values' = vs
        /\ result' = raw(TemplateOf(n), vs)
        /\ calls' = <<>>
        /\ db' = NullV
        /\ UNCHANGED <<heap, returned>>

\* raw('x<?') and raw('x<?', [2])
RawString ==
    /\ op = "none"
    /\ \E text \in QueryTexts : \E vs \in RawArguments :
        /\ op' = "raw"
        /\ strings' = PlainString(text)
        /\ values' = vs
        /\ result' = raw(PlainString(text), vs)
        /\ calls' = <<>>
        /\ db' = NullV
        /\ UNCHANGED <<heap, returned>>

\* the caller is done with the result and is free to make its next call
Return ==
    /\ op # "none"
    /\ op' = "none"
    /\ strings' = TemplateOf(0)
    /\ values' = <<>>
    /\ result' = NullV
    /\ calls' = <<>>
    /\ db' = NullV
    /\ UNCHANGED <<heap, returned>>

Next ==
    \/ Build \/ BuildPlain \/ Fragment \/ FragmentPlain \/ Raw \/ RawString
    \/ Insert \/ Validate
    \/ Prepare \/ WrapD1 \/ CallWrapped
    \/ Return

Spec == Init /\ [][Next]_vars

----------------------------------------------------------------------------
(* Vocabulary of the properties *)

\* the number of '?' in a text
CountQ(text) == Cardinality({i \in 1..Len(text) : text[i] = "?"})

\* the params a marker carries (none when it has no params member)
ParamsOf(m) == IF m.hasParams THEN m.params ELSE <<>>

IsRawMarker(v) == HasTag(v, {"raw"})
IsFragmentMarker(v) == HasTag(v, {"fragment"})
IsQueryShaped(v) == v.k = "object" /\ v.tag = "none" /\ v.hasQuery /\ v.hasParams
IsMarker(v) == IsRawMarker(v) \/ IsFragmentMarker(v) \/ IsQueryShaped(v)
IsPlainObject(v) == v.k = "object" /\ ~IsMarker(v)

\* a marker has as many '?' in its text as it has params; an array is well
\* formed when its marker elements are
WellFormed(v) ==
    IF IsMarker(v) THEN CountQ(v.query) = Len(ParamsOf(v))
    ELSE IF v.k = "array" THEN
        \A i \in 1..Len(v.elems) :
            IsMarker(v.elems[i]) => CountQ(v.elems[i].query) = Len(ParamsOf(v.elems[i]))
    ELSE TRUE

\* the last call was build (or fragment) on an interleaved template
TemplateCall(ops) == op \in ops /\ strings.k = "template"

\* the call on the segments and values before position j, and after it
PreOf(j) == build(Template(SubSeq(strings.segs, 1, j)), SubSeq(values, 1, j - 1))
SufOf(j) ==
    build(Template(SubSeq(strings.segs, j + 1, Len(strings.segs))),
          SubSeq(values, j + 1, Len(values)))

\* value j put exactly text into the query and exactly ps into the params,
\* after everything of the earlier values and before everything of the later
SplicedAt(j, text, ps) ==
    /\ result.query = PreOf(j).query \o text \o SufOf(j).query
    /\ result.params = PreOf(j).params \o ps \o SufOf(j).params

\* what one value contributes when it is the only thing interpolated
PieceOf(v) == buildValue(v, Acc(<<>>, <<>>))

\* the query text and the params after the first j values (and j+1 segments)
RECURSIVE TextThrough(_)
TextThrough(j) ==
    IF j = 0 THEN strings.segs[1]
    ELSE TextThrough(j - 1) \o PieceOf(values[j]).query \o strings.segs[j + 1]

RECURSIVE ParamsThrough(_)
ParamsThrough(j) ==
    IF j = 0 THEN <<>>
    ELSE ParamsThrough(j - 1) \o PieceOf(values[j]).params

----------------------------------------------------------------------------
(* C1: in every query that build returns for an interleaved template whose *)
(* segments hold no '?' and whose markers are well formed, the number of   *)
(* '?' in the text equals the number of params.                            *)

PlaceholderCountEqualsParams ==
    ( /\ TemplateCall({"build"})
      /\ \A i \in 1..Len(strings.segs) : CountQ(strings.segs[i]) = 0
      /\ \A i \in 1..Len(values) : WellFormed(values[i]) )
    => CountQ(result.query) = Len(result.params)

----------------------------------------------------------------------------
(* C2: the text that build returns is the segments and the values' pieces  *)
(* in order, the params are the values' contributions in order, and the    *)
(* two stay aligned: after each value, the text so far holds as many '?'   *)
(* as there are params so far, so that the i-th '?' binds to params[i].    *)

OrderPreservation ==
    ( /\ TemplateCall({"build"})
      /\ \A i \in 1..Len(values) : WellFormed(values[i]) )
    => /\ result.query = TextThrough(Len(values))
       /\ result.params = ParamsThrough(Len(values))
       /\ \A j \in 0..Len(values) : CountQ(TextThrough(j)) = Len(ParamsThrough(j))

\* the same without the alignment: text and params are the concatenations
ConcatenationInOrder ==
    TemplateCall({"build"})
    => /\ result.query = TextThrough(Len(values))
       /\ result.params = ParamsThrough(Len(values))

----------------------------------------------------------------------------
(* C3: two template calls of build (or fragment) with the same segments,   *)
(* whose values differ only in the content of strings, numbers and         *)
(* booleans at the same positions, return the same query text.             *)

\* other contents for the strings, the numbers and the booleans
Contents ==
    { [s |-> <<"'", ";", "?">>, n |-> 7, b |-> FALSE],
      [s |-> <<>>, n |-> 0, b |-> TRUE],
      [s |-> <<"b">>, n |-> 2, b |-> FALSE] }

\* v with the content of a string, a number or a boolean replaced
WithContent(v, c) ==
    CASE v.k = "string" -> Str(c.s)
      [] v.k = "number" -> Num(c.n)
      [] v.k = "boolean" -> Bool(c.b)
      [] OTHER -> v

\* the values vs with the content of every string, number and boolean among
\* them, and among the elements of their arrays, replaced; any two lists of
\* values that differ only in such contents are replaced to the same list
Replaced(vs, c) ==
    [i \in 1..Len(vs) |->
        IF vs[i].k = "array"
        THEN Arr([e \in 1..Len(vs[i].elems) |-> WithContent(vs[i].elems[e], c)])
        ELSE WithContent(vs[i], c)]

CallAgain(vs) == IF op = "build" THEN build(strings, vs) ELSE fragment(strings, vs)

InjectionSafety ==
    TemplateCall({"build", "fragment"})
    => \A c \in Contents : CallAgain(Replaced(values, c)).query = result.query

\* a string and an array were interpolated, and changing the content of the
\* string changes the params
InjectionSafetyWitness ==
    /\ TemplateCall({"build"})
    /\ Len(values) = 2
    /\ values[1] = Str(<<"a">>)
    /\ values[2] = Arr(<<UndefV, FragmentTwo>>)
    /\ \E c \in Contents :
          /\ Replaced(values, c)[1] = Str(<<"'", ";", "?">>)
          /\ CallAgain(Replaced(values, c)).params # result.params

----------------------------------------------------------------------------
(* C4: an interpolated fragment puts its text into the query as it is,     *)
(* with no parentheses around it, and its params in their own order after  *)
(* the params of the earlier values and before those of the later ones;    *)
(* the same for a fragment that was itself built around a fragment.        *)

FragmentSplice ==
    TemplateCall({"build", "fragment"})
    => \A j \in 1..Len(values) :
          IsFragmentMarker(values[j])
          => SplicedAt(j, values[j].query, values[j].params)

\* a fragment built around FragmentTwo
NestedFragment ==
    fragment(Template(<< <<>>, <<"&", "e", "=">>, <<>> >>), <<FragmentTwo, Str(<<"c">>)>>)

\* build`S ${'a'} W=${NestedFragment}`
FragmentSpliceWitness ==
    /\ TemplateCall({"build"})
    /\ values = <<Str(<<"a">>), NestedFragment>>
    /\ result.query = <<"S", " ", "?", " ", "W", "=",
                        "c", "=", "?", "&", "d", "=", "?", "&", "e", "=", "?">>
    /\ result.params = <<Str(<<"a">>), Str(<<"b">>), Num(2), Str(<<"c">>)>>

----------------------------------------------------------------------------
(* C5: an interpolated raw marker puts its text into the query as it is    *)
(* and no placeholder; it contributes no param when made by raw(text) and  *)
(* exactly its params, in order, when made by raw(text, params).           *)

\* the params lists the caller gives to raw
RawParamLists == {<<>>, <<Num(2)>>}

RawSplice ==
    TemplateCall({"build"})
    => \A j \in 1..Len(values) :
          IsRawMarker(values[j])
          => /\ SplicedAt(j, values[j].query, ParamsOf(values[j]))
             /\ values[j] = raw(PlainString(values[j].query), <<>>)
                => SplicedAt(j, values[j].query, <<>>)
             /\ \A ps \in RawParamLists :
                   values[j] = raw(PlainString(values[j].query), <<Arr(ps)>>)
                   => SplicedAt(j, values[j].query, ps)

\* build`S ${true} W=${raw('x<?', [2])}`
RawSpliceWitness ==
    /\ TemplateCall({"build"})
    /\ values = <<Bool(TRUE), raw(PlainString(<<"x", "<", "?">>), <<Arr(<<Num(2)>>)>>)>>
    /\ result.query = <<"S", " ", "?", " ", "W", "=", "x", "<", "?">>
    /\ result.params = <<Bool(TRUE), Num(2)>>

----------------------------------------------------------------------------
(* C6: an interpolated value with a query and a params member and no raw   *)
(* or fragment tag is put into the query between '(' and ')' and its       *)
(* params are appended, in order, at its position.                         *)

SubqueryParenthesized ==
    TemplateCall({"build"})
    => \A j \in 1..Len(values) :
          IsQueryShaped(values[j])
          => SplicedAt(j, <<"(">> \o values[j].query \o <<")">>, values[j].params)

\* build`S ${QueryOne} W=${1}`
SubqueryWitness ==
    /\ TemplateCall({"build"})
    /\ values = <<QueryOne, Num(1)>>
    /\ result.query = <<"S", " ", "(", "q", "=", "?", ")", " ", "W", "=", "?">>
    /\ result.params = <<Bool(FALSE), Num(1)>>

----------------------------------------------------------------------------
(* C7: an interpolated array of k >= 1 elements puts '(' , k '?' joined by *)
(* ', ' and ')' into the query and pushes, element by element, the coerced *)
(* element as one param, or the params list of an element that is a        *)
(* marker.                                                                 *)

RECURSIVE QuestionList(_)
QuestionList(n) ==
    IF n = 1 THEN <<"?">> ELSE QuestionList(n - 1) \o <<",", " ", "?">>

ElemContribution(e) == IF IsMarker(e) THEN ParamsOf(e) ELSE <<parseValue(e)>>

ArrayExpansion ==
    TemplateCall({"build"})
    => \A j \in 1..Len(values) :
          (values[j].k = "array" /\ Len(values[j].elems) >= 1)
          => SplicedAt(j, <<"(">> \o QuestionList(Len(values[j].elems)) \o <<")">>,
                       Flatten([i \in 1..Len(values[j].elems) |->
                                   ElemContribution(values[j].elems[i])]))

\* build`S ${[undefined, FragmentTwo]} W=${1}`
ArrayExpansionWitness ==
    /\ TemplateCall({"build"})
    /\ values = <<Arr(<<UndefV, FragmentTwo>>), Num(1)>>
    /\ result.query = <<"S", " ", "(", "?", ",", " ", "?", ")", " ", "W", "=", "?">>
    /\ result.params = <<NullV, Str(<<"b">>), Num(2), Num(1)>>

----------------------------------------------------------------------------
(* C8: an interpolated empty array puts the text (NULL) into the query and *)
(* contributes no param; the params of the other values are unaffected.    *)

EmptyArrayIsNull ==
    TemplateCall({"build"})
    => \A j \in 1..Len(values) :
          values[j] = Arr(<<>>)
          => SplicedAt(j, <<"(", "N", "U", "L", "L", ")">>, <<>>)

\* build`S ${[]} W=${'a'}`
EmptyArrayWitness ==
    /\ TemplateCall({"build"})
    /\ values = <<Arr(<<>>), Str(<<"a">>)>>
    /\ result.query = <<"S", " ", "(", "N", "U", "L", "L", ")", " ", "W", "=", "?">>
    /\ result.params = <<Str(<<"a">>)>>

----------------------------------------------------------------------------
(* C9: an interpolated plain object (no array, date or buffer, no marker   *)
(* tag, not query-shaped) puts one '?' into the query and contributes one  *)
(* param, the JSON text of the object, which is a string.                  *)

ObjectJSONFallback ==
    TemplateCall({"build"})
    => \A j \in 1..Len(values) :
          IsPlainObject(values[j])
          => SplicedAt(j, <<"?">>, <<Str(JSONstringify(values[j]))>>)

\* build`S ${{id: 1}} W=${'a'}`
ObjectJSONWitness ==
    /\ TemplateCall({"build"})
    /\ values = <<SomeObject, Str(<<"a">>)>>
    /\ result.query = <<"S", " ", "?", " ", "W", "=", "?">>
    /\ result.params = <<Str(<<"{", "\"", "i", "d", "\"", ":", "1", "}">>), Str(<<"a">>)>>

----------------------------------------------------------------------------
(* C10: an interpolated string, number, boolean, date or byte buffer puts  *)
(* one '?' into the query and contributes one param, the value itself;     *)
(* null and undefined put one '?' and contribute the param null.           *)

ScalarCoercion ==
    TemplateCall({"build"})
    => \A j \in 1..Len(values) :
          /\ values[j].k \in {"string", "number", "boolean", "date", "buffer"}
             => SplicedAt(j, <<"?">>, <<values[j]>>)
          /\ values[j].k \in {"null", "undefined"}
             => SplicedAt(j, <<"?">>, <<NullV>>)

\* build`S ${undefined} W=${''}`
ScalarCoercionWitness ==
    /\ TemplateCall({"build"})
    /\ values = <<UndefV, Str(<<>>)>>
    /\ result.query = <<"S", " ", "?", " ", "W", "=", "?">>
    /\ result.params = <<NullV, Str(<<>>)>>

----------------------------------------------------------------------------
(* C11: build called with a plain string returns that string as the query  *)
(* text, whatever the trailing values, and as params the contributions of  *)
(* the trailing values in argument order: a marker (raw, fragment or       *)
(* query-shaped) contributes its own params, none if it has none; an array *)
(* or a plain object contributes its JSON text as one param; any other     *)
(* value contributes itself, null and undefined the param null.            *)

\* the last call was build on a plain string
PlainCall == op = "build" /\ strings.k = "string"

\* what one trailing value contributes to the params
PlainContribution(v) ==
    IF IsMarker(v) THEN ParamsOf(v)
    ELSE IF v.k = "array" \/ IsPlainObject(v) THEN <<Str(JSONstringify(v))>>
    ELSE IF v.k \in {"null", "undefined"} THEN <<NullV>>
    ELSE <<v>>

PlainStringShape ==
    PlainCall
    => /\ result.query = strings.s
       /\ result.params = Flatten([i \in 1..Len(values) |-> PlainContribution(values[i])])

\* build('a=?&b=?', fragment`c=${'b'}&d=${2}`, [1, undefined])
PlainStringShapeWitness ==
    /\ PlainCall
    /\ values = <<FragmentTwo, Arr(<<Num(1), UndefV>>)>>
    /\ result.query = <<"a", "=", "?", "&", "b", "=", "?">>
    /\ result.params = <<Str(<<"b">>), Num(2), Str(<<"[", "1", ",", "n", "u", "l", "l", "]">>)>>

----------------------------------------------------------------------------
(* Vocabulary of the properties of insert *)

\* the last call was insert, and it returned a statement
InsertCall == op = "insert"
Inserted == InsertCall /\ result.k = "object"

\* the rows handed to the last insert
GivenRows == IF values[1].k = "array" THEN values[1].elems ELSE <<values[1]>>

InsertInto == <<"I", "N", "S", "E", "R", "T", " ", "I", "N", "T", "O", " ">>
ValuesKeyword == <<" ", "V", "A", "L", "U", "E", "S", " ">>

\* the statement made of a column list and of the rows' tuples
Statement(columns, tuples) ==
    InsertInto \o strings.s \o <<" ", "(">> \o JoinTexts(columns, <<",", " ">>) \o <<")">>
    \o ValuesKeyword \o JoinTexts(tuples, <<",", " ">>)

\* a tuple made of the texts of its cells
Tuple(cells) == <<"(">> \o JoinTexts(cells, <<",", " ">>) \o <<")">>

\* the statement and the params whose cell for row r and column col is
\* cell[r][c]: the tuples in row order, the cells in the order of columns
StatementOf(columns, cell) ==
    Statement(columns,
              [r \in 1..Len(GivenRows) |->
                  Tuple([c \in 1..Len(columns) |-> cell[r][c].query])])
ParamsRowMajor(columns, cell) ==
    Flatten([r \in 1..Len(GivenRows) |->
                Flatten([c \in 1..Len(columns) |-> cell[r][c].params])])

\* the cell the code emits for a column of a row
CodeCell(row, col) == rowValue(parseValue(IF In(col, row) THEN Get(row, col) ELSE NullV))

\* row {a: 'a'}, row {b: 1, a: 'a'}, and so on
RowA == PlainObject(<< <<ColumnNames[1], Str(<<"a">>)>> >>)
RowBA == PlainObject(<< <<ColumnNames[2], Num(1)>>, <<ColumnNames[1], Str(<<"a">>)>> >>)
RowAB == PlainObject(<< <<ColumnNames[1], Str(<<"a">>)>>, <<ColumnNames[2], Num(1)>> >>)

----------------------------------------------------------------------------
(* C12: the column list of the statement insert returns is the keys of all *)
(* the rows without duplicates, in the order in which a scan of the rows   *)
(* in sequence meets each key for the first time, and this one list gives  *)
(* the column clause and the order of the cells of every row.              *)

\* every key of every row, in the order of the scan
RECURSIVE KeysScanned(_)
KeysScanned(rows) ==
    IF rows = <<>> THEN <<>> ELSE ObjectKeys(Head(rows)) \o KeysScanned(Tail(rows))

\* the first occurrences among the first n of keys
RECURSIVE FirstSeen(_, _)
FirstSeen(keys, n) ==
    IF n = 0 THEN <<>>
    ELSE IF \E j \in 1..(n - 1) : keys[j] = keys[n] THEN FirstSeen(keys, n - 1)
    ELSE Append(FirstSeen(keys, n - 1), keys[n])

ColumnReconciliation ==
    Inserted
    => LET keys == KeysScanned(GivenRows)
           columns == FirstSeen(keys, Len(keys))
           cell == [r \in 1..Len(GivenRows) |->
                       [c \in 1..Len(columns) |-> CodeCell(GivenRows[r], columns[c])]]
       IN  /\ \A i, j \in 1..Len(columns) : columns[i] = columns[j] => i = j
           /\ {columns[i] : i \in 1..Len(columns)} = {keys[i] : i \in 1..Len(keys)}
           /\ result.query = StatementOf(columns, cell)
           /\ result.params = ParamsRowMajor(columns, cell)

\* insert(into('t'), [{a: 'a'}, {b: 1, a: 'a'}])
ColumnReconciliationWitness ==
    /\ Inserted
    /\ values[1] = Arr(<<RowA, RowBA>>)
    /\ result.query = InsertInto \o <<"t", " ", "(", "a", ",", " ", "b", ")">> \o ValuesKeyword
                      \o <<"(", "?", ",", " ", "?", ")", ",", " ", "(", "?", ",", " ", "?", ")">>
    /\ result.params = <<Str(<<"a">>), NullV, Str(<<"a">>), Num(1)>>

----------------------------------------------------------------------------
(* C13: the tuple insert emits for a row has exactly one cell for each     *)
(* column of the reconciled list, in the order of the list; a column whose *)
(* key the row lacks, or whose value in the row is null or undefined, is   *)
(* the cell '?' with the param null; the params are those of the rows in   *)
(* row order and, within a row, of the cells in column order.              *)

\* the cell of a row for a column: '?' and null when the row lacks the key
\* or holds null or undefined under it, else what the code emits for the
\* value the row holds
PaddedCell(row, col) ==
    IF ~HasOwn(row, col) \/ Get(row, col).k \in {"null", "undefined"}
    THEN Acc(<<"?">>, <<NullV>>)
    ELSE rowValue(parseValue(Get(row, col)))

PaddedCells(columns) ==
    [r \in 1..Len(GivenRows) |->
        [c \in 1..Len(columns) |-> PaddedCell(GivenRows[r], columns[c])]]

RowPadding ==
    Inserted
    => LET columns == columnsList(GivenRows)
       IN  /\ result.query = StatementOf(columns, PaddedCells(columns))
           /\ result.params = ParamsRowMajor(columns, PaddedCells(columns))

\* the same for the columns whose name no row inherits a member under
RowPaddingOwnColumns ==
    ( /\ Inserted
      /\ \A c \in 1..Len(columnsList(GivenRows)) :
            columnsList(GivenRows)[c] \notin ObjectPrototype )
    => LET columns == columnsList(GivenRows)
       IN  /\ result.query = StatementOf(columns, PaddedCells(columns))
           /\ result.params = ParamsRowMajor(columns, PaddedCells(columns))

----------------------------------------------------------------------------
(* C14: for each cell whose value the row holds, insert emits a raw or a   *)
(* fragment marker as its text as it is, with its params; a query-shaped   *)
(* value as its text between parentheses, with its params; and any other   *)
(* value, an array included, as one '?' with one param: the value itself,  *)
(* null for null and undefined, the JSON text for an array or an object.   *)

\* the one param of a value that is not a marker
Coerced(v) ==
    IF v.k = "array" \/ IsPlainObject(v) THEN Str(JSONstringify(v))
    ELSE IF v.k \in {"null", "undefined"} THEN NullV
    ELSE v

\* the text and the params of the cell of a value
CellEmission(v) ==
    IF IsRawMarker(v) \/ IsFragmentMarker(v) THEN Acc(v.query, ParamsOf(v))
    ELSE IF IsQueryShaped(v) THEN Acc(<<"(">> \o v.query \o <<")">>, v.params)
    ELSE Acc(<<"?">>, <<Coerced(v)>>)

\* the cells by the rule above where the row holds a value, and as the code
\* pads them where it does not
EmittedCells(columns) ==
    [r \in 1..Len(GivenRows) |->
        [c \in 1..Len(columns) |->
            IF HasOwn(GivenRows[r], columns[c])
            THEN CellEmission(Get(GivenRows[r], columns[c]))
            ELSE CodeCell(GivenRows[r], columns[c])]]

InsertCellEmission ==
    Inserted
    => LET columns == columnsList(GivenRows)
       IN  /\ result.query = StatementOf(columns, EmittedCells(columns))
           /\ result.params = ParamsRowMajor(columns, EmittedCells(columns))

\* insert(into('t'), [{a: raw('x<?', [2]), b: fragment`c=${'b'}&d=${2}`},
\*                    {a: build`q=${false}`, b: [1, undefined]}])
InsertCellEmissionWitness ==
    /\ Inserted
    /\ values[1] =
          Arr(<< PlainObject(<< <<ColumnNames[1], RawBound>>, <<ColumnNames[2], FragmentTwo>> >>),
                 PlainObject(<< <<ColumnNames[1], QueryOne>>,
                                <<ColumnNames[2], Arr(<<Num(1), UndefV>>)>> >>) >>)
    /\ result.query =
          InsertInto \o <<"t", " ", "(", "a", ",", " ", "b", ")">> \o ValuesKeyword
          \o <<"(", "x", "<", "?", ",", " ", "c", "=", "?", "&", "d", "=", "?", ")", ",", " ">>
          \o <<"(", "(", "q", "=", "?", ")", ",", " ", "?", ")">>
    /\ result.params =
          <<Num(2), Str(<<"b">>), Num(2), Bool(FALSE),
            Str(<<"[", "1", ",", "n", "u", "l", "l", "]">>)>>

----------------------------------------------------------------------------
(* C15: insert fails with the error of the empty input exactly when it is  *)
(* given an empty array of rows, and then returns no text and no params;   *)
(* one row object without keys is no error and gives the statement         *)
(* INSERT INTO t () VALUES () with no params.                              *)

EmptyInput ==
    InsertCall
    => /\ (values[1] = Arr(<<>>)) <=> (result = Error(ValuesArrayCannotBeEmpty))
       /\ (values[1] # Arr(<<>>)) <=> IsFragmentMarker(result)
       /\ values[1] = PlainObject(<<>>)
          => /\ result.query = InsertInto \o strings.s \o <<" ", "(", ")">>
                                \o ValuesKeyword \o <<"(", ")">>
             /\ result.params = <<>>

\* insert(into('t'), [])
EmptyInputWitness ==
    /\ InsertCall
    /\ values[1] = Arr(<<>>)
    /\ result.k = "error"
    /\ result.message = ValuesArrayCannotBeEmpty

----------------------------------------------------------------------------
(* C16: insert of one row object returns what insert of the array holding  *)
(* that one row returns: the same text and the same params.                *)

SingleRowEqualsBatch ==
    (InsertCall /\ values[1].k = "object")
    => LET batch == insert(strings.s, Arr(<<values[1]>>))
       IN  /\ IsFragmentMarker(result)
           /\ IsFragmentMarker(batch)
           /\ result.query = batch.query
           /\ result.params = batch.params

\* insert(into('t'), {a: 'a', b: 1})
SingleRowEqualsBatchWitness ==
    /\ InsertCall
    /\ values[1] = RowAB
    /\ result.query = InsertInto \o <<"t", " ", "(", "a", ",", " ", "b", ")">> \o ValuesKeyword
                      \o <<"(", "?", ",", " ", "?", ")">>
    /\ result.params = <<Str(<<"a">>), Num(1)>>

----------------------------------------------------------------------------
(* Vocabulary of the properties of validate *)

\* the last call was validate; its input and its rule
ValidateCall == op = "validate"
Rule == values[1]

\* the text of the input, and the marker raw makes from that text alone
InputText == IF strings.k = "string" THEN strings.s ELSE strings.query
RawOfText == raw(PlainString(InputText), <<>>)

\* the text is an element of the allow list
Listed == \E i \in 1..Len(Rule.elems) : Rule.elems[i] = Str(InputText)

IsPredicate(n) == Rule.k = "function" /\ Rule.length = n

\* the rule's verdict on the text of the input
Accepts == InputText \in Rule.truthyOn

Succeeded == ValidateCall /\ result.k # "error"

----------------------------------------------------------------------------
(* C17, as stated: with an array rule, validate returns a raw marker equal *)
(* to raw(text) when the text of the input is an element of the array, for *)
(* a string input and for a raw-marker input alike, and fails with the     *)
(* error of the disallowed query, carrying the text, when it is not.       *)

AllowListReturnsRawOfText ==
    (ValidateCall /\ Rule.k = "array")
    => /\ Listed => result = RawOfText
       /\ ~Listed => result = Error(QueryNotAllowed(InputText))

(* C17, amended: with an array rule, validate returns raw(text) for a      *)
(* string input and the input marker itself, with its text and its params, *)
(* for a raw-marker input, when the text of the input is an element of the *)
(* array; it fails with the error of the disallowed query, carrying the    *)
(* text, when it is not; the params of the input have no part in this.     *)

AllowList ==
    (ValidateCall /\ Rule.k = "array")
    => /\ calls = <<>>
       /\ Listed => result = (IF strings.k = "string" THEN RawOfText ELSE strings)
       /\ ~Listed => result = Error(QueryNotAllowed(InputText))

\* validate(raw('x<?', [2]), ['NOW', 'x<?'])
AllowListWitness ==
    /\ ValidateCall
    /\ strings = RawBound
    /\ Rule = Arr(<<Str(<<"N", "O", "W">>), Str(<<"x", "<", "?">>)>>)
    /\ result = RawBound
    /\ result # RawOfText

----------------------------------------------------------------------------
(* C18: a predicate declaring one parameter is called exactly once, with   *)
(* the text of the input alone, whether the input is a string or a raw     *)
(* marker; a predicate declaring two parameters is called exactly once,    *)
(* with the raw marker and true; on a false verdict validate fails with    *)
(* the error of the invalid query, on a true verdict it returns the marker.*)

\* the marker validate works on
InputMarker == IF strings.k = "string" THEN RawOfText ELSE strings

PredicateRules ==
    ValidateCall
    => /\ IsPredicate(1) => calls = << <<Str(InputText)>> >>
       /\ IsPredicate(2) => calls = << <<InputMarker, Bool(TRUE)>> >>
       /\ (IsPredicate(1) \/ IsPredicate(2))
          => /\ Accepts => result = InputMarker
             /\ ~Accepts => result = Error(QueryNotValid(InputText))

\* validate(raw('x<?', [2]), (input, parsed) => ...), the predicate
\* returning true
PredicateRulesWitness ==
    /\ ValidateCall
    /\ strings = RawBound
    /\ IsPredicate(2)
    /\ Accepts
    /\ calls = << <<RawBound, Bool(TRUE)>> >>
    /\ result = RawBound

----------------------------------------------------------------------------
(* C19: with a rule that is not an array, not a function declaring one     *)
(* parameter and not a function declaring two, validate fails with the     *)
(* error of the invalid validator; it does not call the rule and returns   *)
(* no marker.                                                              *)

UnrecognizedRule ==
    (ValidateCall /\ Rule.k # "array" /\ ~IsPredicate(1) /\ ~IsPredicate(2))
    => /\ result = Error(InvalidValidatorType)
       /\ calls = <<>>

\* validate('NOW', (a, b, c) => true)
UnrecognizedRuleWitness ==
    /\ ValidateCall
    /\ strings = Str(<<"N", "O", "W">>)
    /\ Rule = Function(3, QueryTexts)
    /\ result = Error(InvalidValidatorType)

----------------------------------------------------------------------------
(* C20: whatever the rule, what validate returns is a raw marker, never a  *)
(* string: raw(input) for a string input, and for a raw-marker input a     *)
(* marker with the text and the params of the input; interpolated into     *)
(* build it puts exactly the validated text into the query.                *)

ValidateReturnsMarker ==
    Succeeded
    => /\ IsRawMarker(result)
       /\ strings.k = "string" => result = RawOfText
       /\ strings.k # "string"
          => result.query = strings.query /\ ParamsOf(result) = ParamsOf(strings)
       /\ LET built == build(TemplateOf(1), <<result>>)
          IN  /\ built.query = SegAt(1) \o InputText \o SegAt(2)
              /\ built.params = (IF strings.k = "string" THEN <<>> ELSE ParamsOf(strings))

\* validate(raw('x<?', [2]), input => ...), the predicate returning true
ValidateReturnsMarkerWitness ==
    /\ Succeeded
    /\ strings = RawBound
    /\ IsPredicate(1)
    /\ result.query = <<"x", "<", "?">>
    /\ result.params = <<Num(2)>>

----------------------------------------------------------------------------
(* Vocabulary of the properties of the adapter *)

\* the calls that prepare a text on the handle and bind params to the
\* statement the handle returned, and nothing else
PreparedAndBound(text, params) ==
    calls = << MethodCall(db, "prepare", <<Str(text)>>),
               MethodCall(PreparedStatement(db, text), "bind", params) >>

\* the query that build of the package returns for the arguments of the call
Built == build(strings, values)

----------------------------------------------------------------------------
(* C21: the function wrapD1(db) returns, called with a template, passes to *)
(* db.prepare the text that build returns for that template and binds the  *)
(* params that build returns, in the same order; also for templates that   *)
(* interpolate markers made by raw and by fragment.                        *)

WrapD1EqualsBuildThenPrepare ==
    op = "wrapped" => PreparedAndBound(Built.query, Built.params)

\* the same for the templates that interpolate no marker made by raw or by
\* fragment, no undefined value and no plain-string values
WrapD1EqualsBuildWithoutMarkers ==
    ( /\ op = "wrapped"
      /\ strings.k = "template"
      /\ \A i \in 1..Len(values) :
            ~IsRawMarker(values[i]) /\ ~IsFragmentMarker(values[i])
            /\ values[i].k # "undefined" )
    => PreparedAndBound(Built.query, Built.params)

----------------------------------------------------------------------------
(* C22: prepare(db, q), for a query q that build returned before, calls    *)
(* db.prepare with the text of q and binds the params of q, in order.      *)

PrepareBuiltQuery ==
    (op = "prepare" /\ IsQueryShaped(strings))
    => PreparedAndBound(strings.query, strings.params)

----------------------------------------------------------------------------
(* C23: a call of prepare(db, template, ...values) calls db.prepare once,  *)
(* with the text build returns, then bind once, on the statement that      *)
(* db.prepare returned, with the params build returns, in order; it makes  *)
(* no other call and returns what bind returned.                           *)

AdapterCallSequence ==
    (op = "prepare" /\ strings.k \in {"template", "string"})
    => /\ PreparedAndBound(Built.query, Built.params)
       /\ result = BoundStatement(PreparedStatement(db, Built.query), Built.params)

\* prepare(db, `S ${fragment`c=${'b'}&d=${2}`} W=${undefined}`)
AdapterCallSequenceWitness ==
    /\ op = "prepare"
    /\ db = Database(2)
    /\ strings.k = "template"
    /\ values = <<FragmentTwo, UndefV>>
    /\ Len(calls) = 2
    /\ calls[1].on = Database(2)
    /\ calls[1].args = <<Str(<<"S", " ", "c", "=", "?", "&", "d", "=", "?", " ", "W", "=", "?">>)>>
    /\ calls[2].method = "bind"
    /\ calls[2].args = <<Str(<<"b">>), Num(2), NullV>>
    /\ result.k = "bound"

----------------------------------------------------------------------------
(* C24: wrapD1(db) fails with the error of the missing connection exactly  *)
(* when db is falsy, before it returns a function and without any call on  *)
(* a handle; for a truthy handle it returns a function and throws nothing. *)

MissingHandle ==
    op = "wrapD1"
    => /\ calls = <<>>
       /\ ~Truthy(db) <=> result = Error(DatabaseConnectionIsNotEstablished)
       /\ Truthy(db) <=> (result.k = "function" /\ result.boundArgs = <<db>>)

\* wrapD1(0)
MissingHandleWitness ==
    /\ op = "wrapD1"
    /\ db = Num(0)
    /\ result = Error(DatabaseConnectionIsNotEstablished)

----------------------------------------------------------------------------
(* C25: raw called with a template returns a raw marker whose text is the  *)
(* segments with the values between them as literal text, an undefined     *)
(* value as the empty text, and which has no params: none of the values    *)
(* becomes a '?' or a param.                                               *)

\* a value as literal text
Literal(v) == IF v.k = "undefined" THEN <<>> ELSE ToText(v)

\* the segments and the literal values up to value j and segment j + 1
RECURSIVE Interleaved(_)
Interleaved(j) ==
    IF j = 0 THEN strings.segs[1]
    ELSE Interleaved(j - 1) \o Literal(values[j]) \o strings.segs[j + 1]

RECURSIVE SumOf(_)
SumOf(numbers) == IF numbers = <<>> THEN 0 ELSE Head(numbers) + SumOf(Tail(numbers))

RawFromTemplate ==
    (op = "raw" /\ strings.k = "template")
    => /\ IsRawMarker(result)
       /\ result.query = Interleaved(Len(values))
       /\ ~result.hasParams /\ ParamsOf(result) = <<>>
       /\ CountQ(result.query)
            = SumOf([i \in 1..Len(strings.segs) |-> CountQ(strings.segs[i])])
              + SumOf([i \in 1..Len(values) |-> CountQ(Literal(values[i]))])

\* raw`S ${'?'} W=${undefined}`
RawFromTemplateWitness ==
    /\ op = "raw"
    /\ strings.k = "template"
    /\ values = <<Str(<<"?">>), UndefV>>
    /\ result.query = <<"S", " ", "?", " ", "W", "=">>
    /\ ~result.hasParams

----------------------------------------------------------------------------
(* C26: fragment, in either call shape, returns a value tagged as a        *)
(* fragment with the text and the params, element for element, that build  *)
(* returns for the same arguments, and nothing else.                       *)

FragmentIsBuildPlusTag ==
    op = "fragment"
    => /\ IsFragmentMarker(result)
       /\ result.query = Built.query
       /\ result.params = Built.params
       /\ result = Object("fragment", TRUE, Built.query, TRUE, Built.params, <<>>)

\* fragment('a=?&b=?', 'a', raw('x<?', [2]))
FragmentIsBuildPlusTagWitness ==
    /\ op = "fragment"
    /\ strings = PlainString(<<"a", "=", "?", "&", "b", "=", "?">>)
    /\ values = <<Str(<<"a">>), RawBound>>
    /\ result.query = <<"a", "=", "?", "&", "b", "=", "?">>
    /\ result.params = <<Str(<<"a">>), Num(2)>>

----------------------------------------------------------------------------
(* C27: for a plain string x, raw(x) is a marker tagged raw with the text  *)
(* x and no params, and raw of the text of raw(x) is that marker again.    *)

RawRoundTrip ==
    (op = "raw" /\ strings.k = "string" /\ values = <<>>)
    => /\ result = Object("raw", TRUE, strings.s, FALSE, <<>>, <<>>)
       /\ raw(PlainString(result.query), <<>>) = result

\* raw('x<?')
RawRoundTripWitness ==
    /\ op = "raw"
    /\ strings = PlainString(<<"x", "<", "?">>)
    /\ values = <<>>
    /\ result.query = <<"x", "<", "?">>
    /\ ~result.hasParams

----------------------------------------------------------------------------
(* C28: when the table and the column names hold no '?' and every marker   *)
(* in a cell has as many '?' in its text as it has params, the text insert *)
(* returns has as many '?' as it has params, and the '?' and the params    *)
(* correspond in order: the text up to any cell, in row order and column   *)
(* order, holds as many '?' as the params up to that cell.                 *)

\* every marker the rows hold is well formed
WellFormedRows ==
    \A r \in 1..Len(GivenRows) : \A e \in 1..Len(GivenRows[r].entries) :
        WellFormed(GivenRows[r].entries[e][2])

NoPlaceholderInNames ==
    LET columns == columnsList(GivenRows)
    IN  /\ CountQ(strings.s) = 0
        /\ \A c \in 1..Len(columns) : CountQ(columns[c]) = 0

\* the statement up to cell c of row r, and the params up to that cell:
\* head is the statement up to VALUES, tuples the tuples of the rows
TextUpTo(head, tuples, cell, r, c) ==
    head
    \o JoinTexts([i \in 1..r |->
                    IF i < r THEN tuples[i]
                    ELSE <<"(">> \o JoinTexts([j \in 1..c |-> cell[i][j].query], <<",", " ">>)],
                 <<",", " ">>)
ParamsUpTo(rowsParams, cell, r, c) ==
    Flatten([i \in 1..r |->
                IF i < r THEN rowsParams[i]
                ELSE Flatten([j \in 1..c |-> cell[i][j].params])])

IsPrefix(short, long) == Len(short) <= Len(long) /\ SubSeq(long, 1, Len(short)) = short

InsertAligned ==
    (Inserted /\ WellFormedRows /\ NoPlaceholderInNames)
    => LET columns == columnsList(GivenRows)
           cell == [r \in 1..Len(GivenRows) |->
                       [c \in 1..Len(columns) |-> CodeCell(GivenRows[r], columns[c])]]
           head == InsertInto \o strings.s \o <<" ", "(">>
                   \o JoinTexts(columns, <<",", " ">>) \o <<")">> \o ValuesKeyword
           tuples == [r \in 1..Len(GivenRows) |->
                         Tuple([c \in 1..Len(columns) |-> cell[r][c].query])]
           rowsParams == [r \in 1..Len(GivenRows) |->
                             Flatten([c \in 1..Len(columns) |-> cell[r][c].params])]
       IN  /\ CountQ(result.query) = Len(result.params)
           /\ \A r \in 1..Len(GivenRows) : \A c \in 1..Len(columns) :
                 LET text == TextUpTo(head, tuples, cell, r, c)
                     params == ParamsUpTo(rowsParams, cell, r, c)
                 IN  /\ IsPrefix(text, result.query)
                     /\ IsPrefix(params, result.params)
                     /\ CountQ(text) = Len(params)

\* insert(into('t'), [{a: build`q=${false}`, b: [1, undefined]},
\*                    {b: fragment`c=${'b'}&d=${2}`, a: raw('x<?', [2])}])
InsertAlignedWitness ==
    /\ Inserted
    /\ values[1] =
          Arr(<< PlainObject(<< <<ColumnNames[1], QueryOne>>,
                                <<ColumnNames[2], Arr(<<Num(1), UndefV>>)>> >>),
                 PlainObject(<< <<ColumnNames[2], FragmentTwo>>,
                                <<ColumnNames[1], RawBound>> >>) >>)
    /\ CountQ(result.query) = 5
    /\ result.params =
          <<Bool(FALSE), Str(<<"[", "1", ",", "n", "u", "l", "l", "]">>),
            Num(2), Str(<<"b">>), Num(2)>>

----------------------------------------------------------------------------
(* C29: whatever build is called with, in either call shape, no element of *)
(* the params it returns is a raw, fragment or query-shaped marker: every  *)
(* element is a string, a number, a boolean, null, a date or a byte buffer.*)

BindableKinds == {"string", "number", "boolean", "null", "date", "buffer"}

NoMarkerSurvives ==
    op = "build"
    => \A i \in 1..Len(result.params) :
          /\ ~IsMarker(result.params[i])
          /\ result.params[i].k \in BindableKinds

\* the first half alone: no element of the params is a marker
NoMarkerInParams ==
    op = "build" => \A i \in 1..Len(result.params) : ~IsMarker(result.params[i])

----------------------------------------------------------------------------
(* Identity of arrays and objects.  heap holds the arrays and objects that *)
(* are alive, an address being an index of heap; the params of an object   *)
(* is the address of an array.  returned holds the values the calls have   *)
(* returned: the address, the call, the addresses that were passed to the  *)
(* call and the value as it was when the call returned it.                 *)

callVars == <<op, strings, values, result, calls, db>>

\* an array literal of the caller, or an array a call constructs
ArrayCell(elems, owner) == [k |-> "array", elems |-> elems, owner |-> owner]

\* an object { [tag]: true, query, params? }
ObjectCell(tag, query, hasParams, params) ==
    [k |-> "object", tag |-> tag, query |-> query,
     hasParams |-> hasParams, params |-> params]

\* the value at an address, its params read through the reference
Deref(h, a) ==
    IF h[a].k = "array" THEN Arr(h[a].elems)
    ELSE Object(h[a].tag, TRUE, h[a].query, h[a].hasParams,
                IF h[a].hasParams THEN h[h[a].params].elems ELSE <<>>, <<>>)

Allocated(h, ref) == [heap |-> h, ref |-> ref]

\* raw(text, list): params is the array of the caller itself
rawRef(h, text, a) ==
    IF Len(h[a].elems) > 0
    THEN Allocated(Append(h, ObjectCell("raw", text, TRUE, a)), Len(h) + 1)
    ELSE Allocated(Append(h, ObjectCell("raw", text, FALSE, 0)), Len(h) + 1)

\* validate(marker, rule): rawSql is the input itself, and is what returns
validateRef(h, m, validator) ==
    LET out == validate(Deref(h, m), validator)
    IN  IF out.result.k = "error" THEN Allocated(h, 0) ELSE Allocated(h, m)

\* an object built by a call around a params array the call constructed
Constructed(h, built) ==
    Allocated(h \o <<ArrayCell(built.params, "call"),
                     ObjectCell(built.tag, built.query, TRUE, Len(h) + 1)>>, Len(h) + 2)

\* build`S ${marker}`: let params = [] and params.push(...value.params)
buildRef(h, strs, m) == Constructed(h, build(strs, <<Deref(h, m)>>))

\* fragment`S ${marker}`: the params of the query it builds
fragmentRef(h, strs, m) == Constructed(h, fragment(strs, <<Deref(h, m)>>))

\* insert(table, { a: marker }): const params = [] and params.push(...)
insertRef(h, table, m) ==
    Constructed(h,
                insert(table, PlainObject(<< <<ColumnNames[1], Deref(h, m)>> >>)))

\* the templates and the rule the calls below are made with
OneHole == Template(<< <<"S", " ">>, <<>> >>)
ListLiterals == {<<>>, <<Num(2)>>}
MarkerText == <<"x", "<", "?">>
ChangedText == <<"D">>
AllowMarkerText == Arr(<<Str(MarkerText)>>)

CallerArrays == {a \in 1..Len(heap) : heap[a].k = "array" /\ heap[a].owner = "caller"}
ObjectsTagged(tags) == {a \in 1..Len(heap) : heap[a].k = "object" /\ heap[a].tag \in tags}

Returned(h, ref, by, inputs) ==
    [ref |-> ref, by |-> by, inputs |-> inputs, snapshot |-> Deref(h, ref)]

\* the caller writes an array literal
NewList ==
    /\ Len(heap) < MaxCells
    /\ \E elems \in ListLiterals : heap' = Append(heap, ArrayCell(elems, "caller"))
    /\ UNCHANGED <<returned, callVars>>

Returns(out, by, inputs) ==
    /\ Len(out.heap) <= MaxCells
    /\ out.ref # 0
    /\ heap' = out.heap
    /\ returned' = returned \cup {Returned(out.heap, out.ref, by, inputs)}
    /\ UNCHANGED callVars

RawOf == \E a \in CallerArrays : Returns(rawRef(heap, MarkerText, a), "raw", {a})

ValidateOf ==
    \E m \in ObjectsTagged({"raw"}) :
        Returns(validateRef(heap, m, AllowMarkerText), "validate", {m})

BuildOf ==
    \E m \in ObjectsTagged({"raw", "fragment", "none"}) :
        Returns(buildRef(heap, OneHole, m), "build", {m})

FragmentOf ==
    \E m \in ObjectsTagged({"raw", "fragment", "none"}) :
        Returns(fragmentRef(heap, OneHole, m), "fragment", {m})

InsertOf ==
    \E m \in ObjectsTagged({"raw", "fragment", "none"}) :
        Returns(insertRef(heap, Table, m), "insert", {m})

\* the caller pushes onto an array it wrote
PushToList ==
    /\ \E a \in CallerArrays :
          /\ Len(heap[a].elems) < MaxArr
          /\ heap' = [heap EXCEPT ![a].elems = Append(@, Num(1))]
    /\ UNCHANGED <<returned, callVars>>

\* the caller assigns the query of a marker it holds; the entries of the
\* calls that made the marker follow, those of the calls it was passed to do
\* not
SetQuery ==
    /\ \E m \in ObjectsTagged({"raw"}) :
          /\ heap[m].query # ChangedText
          /\ heap' = [heap EXCEPT ![m].query = ChangedText]
          /\ returned' =
                {IF r.ref = m /\ m \notin r.inputs
                 THEN [r EXCEPT !.snapshot = Deref(heap', m)]
                 ELSE r : r \in returned}
    /\ UNCHANGED callVars

OwnershipNext ==
    \/ NewList \/ RawOf \/ ValidateOf \/ BuildOf \/ FragmentOf \/ InsertOf
    \/ PushToList \/ SetQuery

SpecOwnership == Init /\ [][OwnershipNext]_vars

----------------------------------------------------------------------------
(* C30: the params list held by a value that raw, fragment, insert, build  *)
(* or validate returned was constructed by that call: it is not a list the *)
(* caller supplied and no other marker holds it, the value is not an       *)
(* object that was passed to the call, and so a later change the caller    *)
(* makes to a list it supplied or to a marker it passed leaves every value *)
(* returned before as it was when it was returned.                         *)

AllObjects == ObjectsTagged({"raw", "fragment", "none"})

FreshParams(ref) ==
    heap[ref].hasParams
    => /\ heap[heap[ref].params].owner # "caller"
       /\ \A b \in AllObjects \ {ref} :
             heap[b].hasParams => heap[b].params # heap[ref].params

OwnershipByValue ==
    \A r \in returned :
        /\ r.ref \notin r.inputs
        /\ FreshParams(r.ref)
        /\ Deref(heap, r.ref) = r.snapshot

\* the same of the values build, fragment and insert returned
ConstructedByValue ==
    \A r \in returned :
        r.by \in {"build", "fragment", "insert"}
        => /\ r.ref \notin r.inputs
           /\ FreshParams(r.ref)
           /\ Deref(heap, r.ref) = r.snapshot

\* no call changes an array or an object that was alive when it was made
CallsLeaveArgumentsUnchanged ==
    [][(RawOf \/ ValidateOf \/ BuildOf \/ FragmentOf \/ InsertOf)
       => \A a \in 1..Len(heap) : heap'[a] = heap[a]]_vars

====
